---- MODULE Spec2Model ----
(***************************************************************************)
(* pytorch2timeloop: the operator classifier (utils/converter.py) and the  *)
(* workload description model (utils/layer_descriptions.py).               *)
(*                                                                         *)
(* One behaviour is the life of one description: a classifier call or a    *)
(* dataclass constructor builds it, then translation calls (to_yaml,       *)
(* to_fused_yaml) read it, possibly mutate it, and return a document or    *)
(* raise.                                                                  *)
(*                                                                         *)
(* Encoding.  A Python string built by concatenation or an f-string is the *)
(* sequence of its pieces (name + "_exhaustive" is Append(name,            *)
(* "_exhaustive")).  A tuple or list is a sequence, a dict with string     *)
(* keys is a function on a set of strings (a record).                      *)
(***************************************************************************)
EXTENDS Integers, Sequences, FiniteSets, TLC

VARIABLES
    desc,     \* the description object (its dataclass fields), kind "none" before construction
    doc,      \* what the last translation call returned, status "none" when it returned nothing
    call,     \* the last call made and its arguments (self: the description as the call found it)
    raised,   \* the exception the last call raised, "" when it returned
    ncalls    \* translation calls made on the description so far

vars == <<desc, doc, call, raised, ncalls>>

(***************************************************************************)
(* Bounds of the model.                                                    *)
(***************************************************************************)
MaxCalls == 2      \* translation calls per description
MaxMatRank == 3    \* rank of a matmul operand
MaxMatDim == 2     \* extent of a matmul operand axis
MaxExtraDims == 2  \* length of extra_dims of a directly constructed matmul description
MaxViewRank == 2   \* rank of a view's input and output shape
MaxViewDim == 3    \* extent of a view axis
MaxElemRank == 2   \* rank of an elementwise operand
MaxElemDim == 2    \* extent of an elementwise operand axis
MaxChan == 2       \* groups and channel counts of a convolution or pooling
MaxBatch == 1      \* batch size of a convolution or pooling
MaxExtent == 2     \* input height and width
MaxKernel == 2     \* kernel height and width
MaxPad == 1        \* padding per axis
MaxStride == 2     \* stride per axis
MaxAdaptive == 7   \* input and output height and width of an adaptive average pooling
MaxManyDims == 11  \* length of extra_dims of a matmul description with many batch axes

(***************************************************************************)
(* Python helpers.                                                         *)
(***************************************************************************)
NoDesc == [kind |-> "none"]
NoDoc == [status |-> "none"]

Min(a, b) == IF a < b THEN a ELSE b

\* all tuples of length r with extents in 1..d
ShapesOfRank(r, d) == [1..r -> 1..d]

ShapesUpTo(lo, hi, d) == UNION {ShapesOfRank(r, d) : r \in lo..hi}

\* s[:-2]
AllButLastTwo(s) == IF Len(s) >= 2 THEN SubSeq(s, 1, Len(s) - 2) ELSE <<>>

\* string.ascii_uppercase
ascii_uppercase ==
    <<"A", "B", "C", "D", "E", "F", "G", "H", "I", "J", "K", "L", "M",
      "N", "O", "P", "Q", "R", "S", "T", "U", "V", "W", "X", "Y", "Z">>

\* string.ascii_uppercase[:n]
Letters(n) == SubSeq(ascii_uppercase, 1, Min(n, Len(ascii_uppercase)))

\* list(map(lambda d: [[d]], dims))
ProjOf(dims) == [i \in 1..Len(dims) |-> <<<<dims[i]>>>>]

\* dict item assignment d[k] = v
SetItem(d, k, v) == (k :> v) @@ d

\* for dim, size in zip(dims, sizes): d[dim] = size
RECURSIVE SetItems(_, _, _, _)
SetItems(d, dims, sizes, i) ==
    IF i > Min(Len(dims), Len(sizes)) THEN d
    ELSE SetItems(SetItem(d, dims[i], sizes[i]), dims, sizes, i + 1)

\* names the callers supply
LayerNames == {<<"layer">>}
OperandNames == {<<"x">>, <<"y">>}

(***************************************************************************)
(* Matrix multiply.                                                        *)
(***************************************************************************)
MatmulShapes == ShapesUpTo(1, MaxMatRank, MaxMatDim)

MatmulFuncDescription(name, m, n, k, ifmap1_name, ifmap2_name, ofmap_name, extra_dims_is_None, extra_dims) ==
    [kind |-> "matmul", name |-> name, m |-> m, n |-> n, k |-> k,
     ifmap1_name |-> ifmap1_name, ifmap2_name |-> ifmap2_name,
     ofmap_name |-> ofmap_name,
     extra_dims_is_None |-> extra_dims_is_None, extra_dims |-> extra_dims]

\* generate_matmul_func with the comparison of the leading dimensions left out
MatmulFuncResult_NoBatchCheck(input1, input2, name, input1_name, input2_name) ==
    IF Len(input1) = 2 /\ Len(input2) = 2
    THEN MatmulFuncDescription(name, input1[1], input2[2], input1[2],
                               input1_name, input2_name, Append(name, "_out"),
                               FALSE, <<>>)
    ELSE IF Len(input1) > 2 /\ Len(input2) > 2
    THEN MatmulFuncDescription(name, input1[1], input2[2], input1[2],
                               input1_name, input2_name, Append(name, "_out"),
                               FALSE, AllButLastTwo(input1))
    ELSE NoDesc

\* the description generate_matmul_func returns, NoDesc when it raises
MatmulFuncResult(input1, input2, name, input1_name, input2_name) ==
    IF Len(input1) = 2 /\ Len(input2) = 2
    THEN MatmulFuncDescription(name, input1[1], input2[2], input1[2],
                               input1_name, input2_name, Append(name, "_out"),
                               FALSE, <<>>)
    ELSE IF Len(input1) > 2 /\ AllButLastTwo(input1) = AllButLastTwo(input2)
    THEN MatmulFuncDescription(name, input1[1], input2[2], input1[2],
                               input1_name, input2_name, Append(name, "_out"),
                               FALSE, AllButLastTwo(input1))
    ELSE NoDesc

generate_matmul_func ==
    /\ call.op = "start"
    /\ \E input1 \in MatmulShapes, input2 \in MatmulShapes,
          name \in LayerNames, input1_name \in OperandNames,
          input2_name \in OperandNames :
          LET d == MatmulFuncResult(input1, input2, name, input1_name, input2_name)
          IN /\ call' = [op |-> "generate_matmul_func",
                         input1 |-> input1, input2 |-> input2]
             /\ desc' = d
             /\ raised' = IF d.kind = "none" THEN "NotImplementedError" ELSE ""
    /\ UNCHANGED <<doc, ncalls>>

\* MatmulFuncDescription(...) built directly; extra_dims defaults to None
MatmulFuncConstruct ==
    /\ call.op = "start"
    /\ \E name \in LayerNames, m \in 1..MaxMatDim, n \in 1..MaxMatDim,
          k \in 1..MaxMatDim, ifmap1_name \in OperandNames,
          ifmap2_name \in OperandNames, is_None \in BOOLEAN,
          extra_dims \in ShapesUpTo(0, MaxExtraDims, MaxMatDim) :
          /\ is_None => extra_dims = <<>>
          /\ desc' = MatmulFuncDescription(name, m, n, k, ifmap1_name, ifmap2_name,
                                           Append(name, "_out"), is_None, extra_dims)
          /\ call' = [op |-> "MatmulFuncDescription"]
    /\ raised' = ""
    /\ UNCHANGED <<doc, ncalls>>

\* MatmulFuncDescription(...) built directly with up to MaxManyDims leading
\* batch axes, all of one extent
MatmulFuncConstructBatched ==
    /\ call.op = "start"
    /\ \E name \in LayerNames, m \in 1..MaxMatDim, n \in 1..MaxMatDim,
          k \in 1..MaxMatDim, ifmap1_name \in OperandNames,
          ifmap2_name \in OperandNames, e \in 0..MaxManyDims, v \in 1..MaxMatDim :
          /\ desc' = MatmulFuncDescription(name, m, n, k, ifmap1_name, ifmap2_name,
                                           Append(name, "_out"), FALSE, [i \in 1..e |-> v])
          /\ call' = [op |-> "MatmulFuncDescription"]
    /\ raised' = ""
    /\ UNCHANGED <<doc, ncalls>>

\* utils/matmul.yaml as get_workload loads it
MatmulTemplate ==
    [shape |->
        [name |-> <<"matmul">>,
         dimensions |-> <<"K", "M", "N">>,
         dataspaces |->
            <<[name |-> <<"Input1">>, projection |-> <<<<<<"M">>>>, <<<<"K">>>>>>,
               readwrite |-> FALSE],
              [name |-> <<"Input2">>, projection |-> <<<<<<"K">>>>, <<<<"N">>>>>>,
               readwrite |-> FALSE],
              [name |-> <<"Outputs">>, projection |-> <<<<<<"M">>>>, <<<<"N">>>>>>,
               readwrite |-> TRUE]>>],
     instance |-> [K |-> 1, M |-> 1, N |-> 1]]

\* LayerDescription.to_yaml: the template with the shape's name set
LayerDescription_to_yaml(template, self) ==
    [status |-> "ok", wrapped |-> TRUE,
     shape |-> [template.shape EXCEPT !.name = self.name],
     instance |-> template.instance]

\* dims of MatmulFuncDescription.to_yaml
MatmulDims(self) ==
    IF ~self.extra_dims_is_None THEN Letters(Len(self.extra_dims)) ELSE <<>>

\* one pass of the loop over the data-spaces
MatmulDspace(self, dims, dspace) ==
    [dspace EXCEPT
        !.name = IF dspace.name = <<"Input1">> THEN self.ifmap1_name
                 ELSE IF dspace.name = <<"Input2">> THEN self.ifmap2_name
                 ELSE IF dspace.name = <<"Outputs">> THEN self.ofmap_name
                 ELSE dspace.name,
        !.projection = ProjOf(dims) \o dspace.projection]

\* the document MatmulFuncDescription.to_yaml returns
MatmulDoc(self) ==
    LET config == LayerDescription_to_yaml(MatmulTemplate, self)
        dims == MatmulDims(self)
        extra == IF self.extra_dims_is_None THEN <<>> ELSE self.extra_dims
        spaces == [i \in 1..Len(config.shape.dataspaces) |->
                      MatmulDspace(self, dims, config.shape.dataspaces[i])]
        kmn == SetItem(SetItem(SetItem(config.instance, "K", self.k),
                               "M", self.m), "N", self.n)
    IN [config EXCEPT
          !.shape = [config.shape EXCEPT !.dataspaces = spaces, !.name = self.name],
          !.instance = SetItems(kmn, dims, extra, 1)]

Matmul_to_yaml ==
    /\ desc.kind = "matmul"
    /\ ncalls < MaxCalls
    /\ doc' = MatmulDoc(desc)
    /\ desc' = [desc EXCEPT !.extra_dims_is_None = FALSE,
                            !.extra_dims = IF desc.extra_dims_is_None THEN <<>> ELSE @]
    /\ call' = [op |-> "to_yaml", self |-> desc]
    /\ raised' = ""
    /\ ncalls' = ncalls + 1

(***************************************************************************)
(* View / reshape.                                                         *)
(***************************************************************************)
ViewShapes == ShapesUpTo(0, MaxViewRank, MaxViewDim)

\* product = lambda l: reduce(lambda x, y: x*y, l); reduce raises TypeError on ()
RECURSIVE product(_)
product(l) == IF Len(l) = 1 THEN l[1] ELSE product(SubSeq(l, 1, Len(l) - 1)) * l[Len(l)]

\* the pieces of an arithmetic expression's text
Dim(d) == [t |-> "dim", s |-> d, n |-> 0]
Num(n) == [t |-> "num", s |-> "", n |-> n]
Op(o) == [t |-> "op", s |-> o, n |-> 0]

ViewFuncDescription(name, ifmap_shape, ofmap_shape, ifmap_name, ofmap_name) ==
    [kind |-> "view", name |-> name, ifmap_shape |-> ifmap_shape,
     ofmap_shape |-> ofmap_shape, ifmap_name |-> ifmap_name,
     ofmap_name |-> ofmap_name]

ViewFuncConstruct ==
    /\ call.op = "start"
    /\ \E name \in LayerNames, ifmap_shape \in ViewShapes, ofmap_shape \in ViewShapes,
          ifmap_name \in OperandNames :
          desc' = ViewFuncDescription(name, ifmap_shape, ofmap_shape, ifmap_name,
                                      Append(name, "_out"))
    /\ call' = [op |-> "ViewFuncDescription"]
    /\ raised' = ""
    /\ UNCHANGED <<doc, ncalls>>

View_to_yaml ==
    /\ desc.kind = "view"
    /\ ncalls < MaxCalls
    /\ doc' = NoDoc
    /\ raised' = "NotImplementedError"
    /\ call' = [op |-> "to_yaml", self |-> desc]
    /\ ncalls' = ncalls + 1
    /\ UNCHANGED desc

\* bounds: one '0 <= dim < size' per zip(ofmap_dims, ofmap_shape)
ViewBounds(dims, shape) ==
    [i \in 1..Min(Len(dims), Len(shape)) |-> [lo |-> 0, dim |-> dims[i], hi |-> shape[i]]]

\* ' + '.join(terms), terms being 'dim*cur_size' from the last output axis
\* (i = n) to the first, cur_size the product of the extents passed so far
RECURSIVE linearized_ofmaps(_, _, _, _)
linearized_ofmaps(dims, shape, i, cur_size) ==
    IF i = 0 THEN <<>>
    ELSE <<Dim(dims[i]), Op("*"), Num(cur_size)>>
         \o (IF i > 1 THEN <<Op("+")>> ELSE <<>>)
         \o linearized_ofmaps(dims, shape, i - 1, cur_size * shape[i])

\* ifmap_terms before the reverse(): 'floor(<linearized>/<cur_size>)%<dim_size>'
\* for the input axes from the last (i = n) to the first
RECURSIVE ifmap_terms(_, _, _, _)
ifmap_terms(lin, shape, i, cur_size) ==
    IF i = 0 THEN <<>>
    ELSE <<[floor |-> lin \o <<Op("/"), Num(cur_size)>>, mod |-> shape[i]]>>
         \o ifmap_terms(lin, shape, i - 1, cur_size * shape[i])

\* list.reverse()
Reverse(l) == [i \in 1..Len(l) |-> l[Len(l) + 1 - i]]

\* the document ViewFuncDescription.to_fused_yaml returns
ViewDoc(self) ==
    LET ofmap_dims == Letters(Len(self.ofmap_shape))
        n == Min(Len(ofmap_dims), Len(self.ofmap_shape))
        lin == linearized_ofmaps(ofmap_dims, self.ofmap_shape, n, 1)
        terms == Reverse(ifmap_terms(lin, self.ifmap_shape, Len(self.ifmap_shape), 1))
    IN [status |-> "ok", wrapped |-> FALSE,
        shape |-> [name |-> self.name,
                   dimensions |-> ofmap_dims,
                   dataspaces |->
                      <<[name |-> self.ifmap_name, projection |-> terms,
                         readwrite |-> FALSE],
                        [name |-> self.ofmap_name, projection |-> ofmap_dims,
                         readwrite |-> TRUE]>>],
        instance |-> ViewBounds(ofmap_dims, self.ofmap_shape)]

\* to_fused_yaml with the element-count assertion left out
ViewFusedRaises_NoAssert(self) ==
    IF Len(self.ifmap_shape) = 0 \/ Len(self.ofmap_shape) = 0 THEN "TypeError"
    ELSE ""

\* the exception ViewFuncDescription.to_fused_yaml raises, "" when it returns
ViewFusedRaises(self) ==
    IF Len(self.ifmap_shape) = 0 \/ Len(self.ofmap_shape) = 0 THEN "TypeError"
    ELSE IF product(self.ifmap_shape) # product(self.ofmap_shape) THEN "AssertionError"
    ELSE ""

View_to_fused_yaml ==
    /\ desc.kind = "view"
    /\ ncalls < MaxCalls
    /\ raised' = ViewFusedRaises(desc)
    /\ doc' = IF ViewFusedRaises(desc) = "" THEN ViewDoc(desc) ELSE NoDoc
    /\ call' = [op |-> "to_fused_yaml", self |-> desc]
    /\ ncalls' = ncalls + 1
    /\ UNCHANGED desc

(***************************************************************************)
(* Elementwise binary.                                                     *)
(***************************************************************************)
ElemShapes == ShapesUpTo(0, MaxElemRank, MaxElemDim)

BinaryElementwiseFuncDescription(name, ifmap1_shape, ifmap2_shape, ofmap_shape, ifmap1_name, ifmap2_name, ofmap_name) ==
    [kind |-> "elementwise", name |-> name, ifmap1_shape |-> ifmap1_shape,
     ifmap2_shape |-> ifmap2_shape, ofmap_shape |-> ofmap_shape,
     ifmap1_name |-> ifmap1_name, ifmap2_name |-> ifmap2_name,
     ofmap_name |-> ofmap_name]

BinaryElementwiseConstruct ==
    /\ call.op = "start"
    /\ \E name \in LayerNames, ifmap1_shape \in ElemShapes, ifmap2_shape \in ElemShapes,
          ofmap_shape \in ElemShapes, ifmap1_name \in OperandNames,
          ifmap2_name \in OperandNames :
          desc' = BinaryElementwiseFuncDescription(name, ifmap1_shape, ifmap2_shape,
                      ofmap_shape, ifmap1_name, ifmap2_name, Append(name, "_out"))
    /\ call' = [op |-> "BinaryElementwiseFuncDescription"]
    /\ raised' = ""
    /\ UNCHANGED <<doc, ncalls>>

\* extents of 1 put after the shape instead of before it
PadRight(shape, n_missing_dims) ==
    shape \o [i \in 1..n_missing_dims |-> 1]

\* tuple([1]*n_missing_dims + list(shape))
PadLeft(shape, n_missing_dims) ==
    [i \in 1..n_missing_dims |-> 1] \o shape

\* the shape an input has after the padding step, given the output shape
Padded(shape, ofmap_shape) ==
    IF Len(shape) < Len(ofmap_shape)
    THEN PadLeft(shape, Len(ofmap_shape) - Len(shape))
    ELSE shape

\* the description after the padding step
ElemPadded(self) ==
    [self EXCEPT !.ifmap1_shape = Padded(@, self.ofmap_shape),
                 !.ifmap2_shape = Padded(@, self.ofmap_shape)]

\* the two assertions on the ranks; self is the description after padding
ElemAssertFails(self) ==
    \/ Len(self.ifmap1_shape) # Len(self.ofmap_shape)
    \/ Len(self.ifmap2_shape) # Len(self.ofmap_shape)

\* the document of both translations; self is the description after padding
\* and, in to_yaml, after the name was suffixed
ElemDoc(self) ==
    LET dims == Letters(Len(self.ofmap_shape))
    IN [status |-> "ok", wrapped |-> FALSE,
        shape |-> [name |-> self.name,
                   dimensions |-> dims,
                   dataspaces |->
                      <<[name |-> <<"Weights">>, projection |-> ProjOf(dims),
                         readwrite |-> FALSE],
                        [name |-> <<"Inputs">>, projection |-> ProjOf(dims),
                         readwrite |-> FALSE],
                        [name |-> <<"Outputs">>, projection |-> ProjOf(dims),
                         readwrite |-> TRUE]>>],
        instance |-> SetItems(<<>>, dims, self.ifmap1_shape, 1)]

\* the exception BinaryElementwiseFuncDescription.to_yaml raises, "" when it
\* returns; self is the description after padding
ElemYamlRaises(self) ==
    IF ElemAssertFails(self) THEN "AssertionError"
    ELSE IF Len(self.ifmap1_shape) = 0 THEN "TypeError"
    ELSE ""

\* the description after 'if ifmap_prod == 1: self.name += "_exhaustive"'
ElemSuffixed(self) ==
    IF product(self.ifmap1_shape) = 1
    THEN [self EXCEPT !.name = Append(@, "_exhaustive")]
    ELSE self

BinaryElementwise_to_yaml ==
    /\ desc.kind = "elementwise"
    /\ ncalls < MaxCalls
    /\ LET padded == ElemPadded(desc)
           exc == ElemYamlRaises(padded)
       IN /\ raised' = exc
          /\ desc' = IF exc = "" THEN ElemSuffixed(padded) ELSE padded
          /\ doc' = IF exc = "" THEN ElemDoc(ElemSuffixed(padded)) ELSE NoDoc
    /\ call' = [op |-> "to_yaml", self |-> desc]
    /\ ncalls' = ncalls + 1

BinaryElementwise_to_fused_yaml ==
    /\ desc.kind = "elementwise"
    /\ ncalls < MaxCalls
    /\ LET padded == ElemPadded(desc)
           exc == IF ElemAssertFails(padded) THEN "AssertionError" ELSE ""
       IN /\ raised' = exc
          /\ desc' = padded
          /\ doc' = IF exc = "" THEN ElemDoc(padded) ELSE NoDoc
    /\ call' = [op |-> "to_fused_yaml", self |-> desc]
    /\ ncalls' = ncalls + 1

(***************************************************************************)
(* Convolution family.                                                     *)
(***************************************************************************)
\* int(a / b) for b > 0: the quotient truncated toward zero
IntOfQuotient(a, b) == IF a >= 0 THEN a \div b ELSE -((-a) \div b)

ConvLayerDescription(name, g, m, w, h, c, n, s, r, w_pad, h_pad, w_stride, h_stride, ifmap_name, filter_name, ofmap_name) ==
    [kind |-> "conv", name |-> name, g |-> g, m |-> m, w |-> w, h |-> h, c |-> c,
     n |-> n, s |-> s, r |-> r, w_pad |-> w_pad, h_pad |-> h_pad,
     w_stride |-> w_stride, h_stride |-> h_stride, ifmap_name |-> ifmap_name,
     filter_name |-> filter_name, ofmap_name |-> ofmap_name]

\* ConvLayerDescription.q and MaxPoolLayerDescription.q
PropQ(self) == IntOfQuotient(self.w - self.s + 2 * self.w_pad, self.w_stride) + 1

\* p without the final + 1
PropP_NoPlusOne(self) == IntOfQuotient(self.h - self.r + 2 * self.h_pad, self.h_stride)

\* ConvLayerDescription.p and MaxPoolLayerDescription.p
PropP(self) == IntOfQuotient(self.h - self.r + 2 * self.h_pad, self.h_stride) + 1

\* ConvLayerDescription(...) built directly: the dataclass checks nothing
ConvLayerConstruct ==
    /\ call.op = "start"
    /\ \E name \in LayerNames, ifmap_name \in OperandNames,
          g \in 1..MaxChan, m \in 1..MaxChan, c \in 1..MaxChan, n \in 1..MaxBatch,
          w \in 1..MaxExtent, h \in 1..MaxExtent, s \in 1..MaxKernel, r \in 1..MaxKernel,
          w_pad \in 0..MaxPad, h_pad \in 0..MaxPad,
          w_stride \in 1..MaxStride, h_stride \in 1..MaxStride :
          desc' = ConvLayerDescription(name, g, m, w, h, c, n, s, r, w_pad, h_pad,
                      w_stride, h_stride, ifmap_name,
                      Append(name, "_filter"), Append(name, "_out"))
    /\ call' = [op |-> "ConvLayerDescription"]
    /\ raised' = ""
    /\ UNCHANGED <<doc, ncalls>>

\* generate_description for nn.Conv2d.  The hook runs after the module's
\* forward, so groups divides both channel counts and the kernel fits in the
\* padded input (nn.Conv2d rejects anything else).
generate_description_Conv2d ==
    /\ call.op = "start"
    /\ \E name \in LayerNames, ifmap_name \in OperandNames,
          groups \in 1..MaxChan, out_channels \in 1..MaxChan,
          input \in [1..4 -> 1..MaxExtent], kernel_size \in [1..2 -> 1..MaxKernel],
          padding \in [1..2 -> 0..MaxPad], stride \in [1..2 -> 1..MaxStride] :
          /\ input[1] <= MaxBatch
          /\ input[2] <= MaxChan
          /\ input[2] % groups = 0
          /\ out_channels % groups = 0
          /\ input[3] + 2 * padding[1] >= kernel_size[1]
          /\ input[4] + 2 * padding[2] >= kernel_size[2]
          /\ desc' = ConvLayerDescription(name, groups, out_channels, input[4], input[3],
                         input[2], input[1], kernel_size[2], kernel_size[1],
                         padding[2], padding[1], stride[2], stride[1], ifmap_name,
                         Append(name, "_filter"), Append(name, "_out"))
          /\ call' = [op |-> "generate_description", module |-> "Conv2d", input |-> input]
    /\ raised' = ""
    /\ UNCHANGED <<doc, ncalls>>

\* the commented-out h=input.shape[2]: the input extent passed on unchanged
ConvTransposeExtent_InputExtent(in, stride, pad, kernel) == in

\* new_h = int((in-1) * stride - 2 * pad + 1 * (kernel-1) + 0 + 1), and new_w
ConvTransposeExtent(in, stride, pad, kernel) ==
    (in - 1) * stride - 2 * pad + 1 * (kernel - 1) + 0 + 1

\* generate_description for nn.ConvTranspose2d: the layer is described as a
\* ConvLayerDescription.  groups divides both channel counts
\* (nn.ConvTranspose2d rejects anything else).
generate_description_ConvTranspose2d ==
    /\ call.op = "start"
    /\ \E name \in LayerNames, ifmap_name \in OperandNames,
          groups \in 1..MaxChan, out_channels \in 1..MaxChan,
          input \in [1..4 -> 1..MaxExtent], kernel_size \in [1..2 -> 1..MaxKernel],
          padding \in [1..2 -> 0..MaxPad], stride \in [1..2 -> 1..MaxStride] :
          LET new_h == ConvTransposeExtent(input[3], stride[1], padding[1], kernel_size[1])
              new_w == ConvTransposeExtent(input[4], stride[2], padding[2], kernel_size[2])
          IN /\ input[1] <= MaxBatch
             /\ input[2] <= MaxChan
             /\ input[2] % groups = 0
             /\ out_channels % groups = 0
             /\ desc' = ConvLayerDescription(name, groups, out_channels, new_w, new_h,
                            input[2], input[1], kernel_size[2], kernel_size[1],
                            padding[2], padding[1], stride[2], stride[1], ifmap_name,
                            Append(name, "_filter"), Append(name, "_out"))
             /\ call' = [op |-> "generate_description", module |-> "ConvTranspose2d",
                         input |-> input, kernel_size |-> kernel_size,
                         padding |-> padding, stride |-> stride]
    /\ raised' = ""
    /\ UNCHANGED <<doc, ncalls>>

\* generate_description for nn.Linear
generate_description_Linear ==
    /\ call.op = "start"
    /\ \E name \in LayerNames, ifmap_name \in OperandNames,
          in_features \in 1..MaxChan, out_features \in 1..MaxChan,
          batch \in 1..MaxBatch :
          /\ desc' = ConvLayerDescription(name, 1, out_features, 1, 1, in_features,
                         batch, 1, 1, 0, 0, 1, 1, ifmap_name,
                         Append(name, "_filter"), Append(name, "_out"))
          /\ call' = [op |-> "generate_description", module |-> "Linear",
                      input |-> <<batch, in_features>>]
    /\ raised' = ""
    /\ UNCHANGED <<doc, ncalls>>

\* in_channels_per_group = self.c // self.g
in_channels_per_group(self) == self.c \div self.g

\* out_channels_per_group = self.m // self.g
out_channels_per_group(self) == self.m \div self.g

\* the document ConvLayerDescription.to_yaml and to_fused_yaml build
ConvDoc(self) ==
    [status |-> "ok", wrapped |-> FALSE,
     shape |->
        [name |-> self.name,
         dimensions |-> <<"G", "C", "M", "R", "S", "N", "P", "Q">>,
         coefficients |->
            <<[name |-> "Cgroup", default |-> in_channels_per_group(self)],
              [name |-> "Mgroup", default |-> out_channels_per_group(self)],
              [name |-> "Hstride", default |-> self.h_stride],
              [name |-> "Wstride", default |-> self.w_stride],
              [name |-> "Nop", default |-> 1]>>,
         dataspaces |->
            <<[name |-> <<"Weights">>,
               projection |-> <<<<<<"G">>>>, <<<<"C">>>>, <<<<"M">>>>, <<<<"R">>>>, <<<<"S">>>>>>,
               readwrite |-> FALSE],
              [name |-> <<"Inputs">>,
               projection |-> <<<<<<"N">>>>,
                                <<<<"G", "Cgroup">>, <<"C", "Nop">>>>,
                                <<<<"R", "Nop">>, <<"P", "Hstride">>>>,
                                <<<<"S", "Nop">>, <<"Q", "Wstride">>>>>>,
               readwrite |-> FALSE],
              [name |-> <<"Outputs">>,
               projection |-> <<<<<<"N">>>>,
                                <<<<"G", "Mgroup">>, <<"M", "Nop">>>>,
                                <<<<"P">>>>, <<<<"Q">>>>>>,
               readwrite |-> TRUE]>>],
     instance |->
        [G |-> self.g, C |-> in_channels_per_group(self),
         M |-> out_channels_per_group(self), N |-> self.n, R |-> self.r,
         S |-> self.s, P |-> PropP(self), Q |-> PropQ(self)]]

Conv_to_yaml ==
    /\ desc.kind = "conv"
    /\ ncalls < MaxCalls
    /\ doc' = ConvDoc(desc)
    /\ raised' = ""
    /\ call' = [op |-> "to_yaml", self |-> desc]
    /\ ncalls' = ncalls + 1
    /\ UNCHANGED desc

Conv_to_fused_yaml ==
    /\ desc.kind = "conv"
    /\ ncalls < MaxCalls
    /\ doc' = ConvDoc(desc)
    /\ raised' = ""
    /\ call' = [op |-> "to_fused_yaml", self |-> desc]
    /\ ncalls' = ncalls + 1
    /\ UNCHANGED desc

(***************************************************************************)
(* Pooling.                                                                *)
(***************************************************************************)
MaxPoolLayerDescription(name, w, h, c, n, s, r, w_pad, h_pad, w_stride, h_stride, ifmap_name, ofmap_name) ==
    [kind |-> "pool", name |-> name, w |-> w, h |-> h, c |-> c, n |-> n,
     s |-> s, r |-> r, w_pad |-> w_pad, h_pad |-> h_pad, w_stride |-> w_stride,
     h_stride |-> h_stride, ifmap_name |-> ifmap_name, ofmap_name |-> ofmap_name]

\* MaxPoolLayerDescription(...) built directly
MaxPoolLayerConstruct ==
    /\ call.op = "start"
    /\ \E name \in LayerNames, ifmap_name \in OperandNames,
          c \in 1..MaxChan, n \in 1..MaxBatch,
          w \in 1..MaxExtent, h \in 1..MaxExtent, s \in 1..MaxKernel, r \in 1..MaxKernel,
          w_pad \in 0..MaxPad, h_pad \in 0..MaxPad,
          w_stride \in 1..MaxStride, h_stride \in 1..MaxStride :
          desc' = MaxPoolLayerDescription(name, w, h, c, n, s, r, w_pad, h_pad,
                      w_stride, h_stride, ifmap_name, Append(name, "_out"))
    /\ call' = [op |-> "MaxPoolLayerDescription"]
    /\ raised' = ""
    /\ UNCHANGED <<doc, ncalls>>

\* an int or a tuple module attribute as a (height, width) pair; an int is <<v>>
AsPair(v) == IF Len(v) = 1 THEN <<v[1], v[1]>> ELSE v

\* generate_description for nn.MaxPool2d.  nn.MaxPool2d accepts a padding of
\* at most half the kernel, and the kernel fits in the padded input.
generate_description_MaxPool2d ==
    /\ call.op = "start"
    /\ \E name \in LayerNames, ifmap_name \in OperandNames,
          input \in [1..4 -> 1..MaxExtent],
          kernel_size \in ShapesUpTo(1, 2, MaxKernel),
          padding \in [1..1 -> 0..MaxPad] \cup [1..2 -> 0..MaxPad],
          stride \in ShapesUpTo(1, 2, MaxStride) :
          LET k == AsPair(kernel_size)
              pd == AsPair(padding)
              st == AsPair(stride)
          IN /\ input[1] <= MaxBatch
             /\ input[2] <= MaxChan
             /\ 2 * pd[1] <= k[1]
             /\ 2 * pd[2] <= k[2]
             /\ input[3] + 2 * pd[1] >= k[1]
             /\ input[4] + 2 * pd[2] >= k[2]
             /\ desc' = MaxPoolLayerDescription(name, input[4], input[3], input[2],
                            input[1], k[2], k[1], pd[2], pd[1], st[2], st[1],
                            ifmap_name, Append(name, "_out"))
             /\ call' = [op |-> "generate_description", module |-> "MaxPool2d",
                         input |-> input]
    /\ raised' = ""
    /\ UNCHANGED <<doc, ncalls>>

\* kernel_h with the stride taken out once too often
AdaptiveKernel_OffByOne(in, out, stride) == in - out * stride

\* kernel_w = input.shape[-1] - (output.shape[-1]-1)*stride_w, and kernel_h
AdaptiveKernel(in, out, stride) == in - (out - 1) * stride

\* stride_w = input.shape[-1] // output.shape[-1], and stride_h
AdaptiveStride(in, out) == in \div out

\* generate_description for nn.AdaptiveAvgPool2d; input and output are the
\* (n, c, h, w) shapes the hook observes
generate_description_AdaptiveAvgPool2d ==
    /\ call.op = "start"
    /\ \E name \in LayerNames, ifmap_name \in OperandNames,
          n \in 1..MaxBatch, c \in 1..MaxChan,
          in_h \in 1..MaxAdaptive, in_w \in 1..MaxAdaptive,
          out_h \in 1..MaxAdaptive, out_w \in 1..MaxAdaptive :
          LET input == <<n, c, in_h, in_w>>
              output == <<n, c, out_h, out_w>>
              stride_w == AdaptiveStride(input[4], output[4])
              stride_h == AdaptiveStride(input[3], output[3])
              kernel_w == AdaptiveKernel(input[4], output[4], stride_w)
              kernel_h == AdaptiveKernel(input[3], output[3], stride_h)
          IN /\ desc' = MaxPoolLayerDescription(name, input[4], input[3], input[2],
                            input[1], kernel_w, kernel_h, 0, 0, stride_w, stride_h,
                            ifmap_name, Append(name, "_out"))
             /\ call' = [op |-> "generate_description", module |-> "AdaptiveAvgPool2d",
                         input |-> input, output |-> output]
    /\ raised' = ""
    /\ UNCHANGED <<doc, ncalls>>

\* utils/pool.yaml as get_workload loads it
PoolTemplate ==
    [shape |->
        [name |-> <<"pool">>,
         dimensions |-> <<"C", "R", "S", "N", "P", "Q">>,
         dataspaces |->
            <<[name |-> <<"Inputs">>,
               projection |-> <<<<<<"N">>>>, <<<<"C">>>>,
                                <<<<"R", "Nop">>, <<"P", "Hstride">>>>,
                                <<<<"S", "Nop">>, <<"Q", "Wstride">>>>>>,
               readwrite |-> FALSE],
              [name |-> <<"Outputs">>,
               projection |-> <<<<<<"N">>>>, <<<<"C">>>>, <<<<"P">>>>, <<<<"Q">>>>>>,
               readwrite |-> TRUE]>>],
     instance |-> [C |-> 1, R |-> 1, S |-> 1, N |-> 1, P |-> 1, Q |-> 1,
                   Wstride |-> 1, Hstride |-> 1]]

\* the document MaxPoolLayerDescription.to_yaml returns
MaxPoolDoc(self) ==
    LET config == LayerDescription_to_yaml(PoolTemplate, self)
        i1 == SetItem(config.instance, "R", self.r)
        i2 == SetItem(i1, "S", self.s)
        i3 == SetItem(i2, "P", PropP(self))
        i4 == SetItem(i3, "Q", PropQ(self))
        i5 == SetItem(i4, "C", self.c)
        i6 == SetItem(i5, "N", self.n)
        i7 == SetItem(i6, "Wstride", self.w_stride)
        i8 == SetItem(i7, "Hstride", self.h_stride)
    IN [config EXCEPT !.instance = i8]

\* the exception MaxPoolLayerDescription.to_yaml raises, "" when it returns:
\* self.p and self.q divide by the strides
MaxPoolYamlRaises(self) ==
    IF self.h_stride = 0 \/ self.w_stride = 0 THEN "ZeroDivisionError" ELSE ""

MaxPool_to_yaml ==
    /\ desc.kind = "pool"
    /\ ncalls < MaxCalls
    /\ doc' = IF MaxPoolYamlRaises(desc) = "" THEN MaxPoolDoc(desc) ELSE NoDoc
    /\ raised' = MaxPoolYamlRaises(desc)
    /\ call' = [op |-> "to_yaml", self |-> desc]
    /\ ncalls' = ncalls + 1
    /\ UNCHANGED desc

\* super().to_fused_yaml(): LayerDescription defines no to_fused_yaml
MaxPool_to_fused_yaml ==
    /\ desc.kind = "pool"
    /\ ncalls < MaxCalls
    /\ doc' = NoDoc
    /\ raised' = "AttributeError"
    /\ call' = [op |-> "to_fused_yaml", self |-> desc]
    /\ ncalls' = ncalls + 1
    /\ UNCHANGED desc

(***************************************************************************)
(* Specifications.                                                         *)
(***************************************************************************)
Init ==
    /\ desc = NoDesc
    /\ doc = NoDoc
    /\ call = [op |-> "start"]
    /\ raised = ""
    /\ ncalls = 0

NextMatmul ==
    \/ generate_matmul_func
    \/ MatmulFuncConstruct
    \/ Matmul_to_yaml

SpecMatmul == Init /\ [][NextMatmul]_vars

NextMatmulBatched ==
    \/ MatmulFuncConstructBatched
    \/ Matmul_to_yaml

SpecMatmulBatched == Init /\ [][NextMatmulBatched]_vars

NextView ==
    \/ ViewFuncConstruct
    \/ View_to_yaml
    \/ View_to_fused_yaml

SpecView == Init /\ [][NextView]_vars

NextElem ==
    \/ BinaryElementwiseConstruct
    \/ BinaryElementwise_to_yaml
    \/ BinaryElementwise_to_fused_yaml

SpecElem == Init /\ [][NextElem]_vars

NextConvPool ==
    \/ ConvLayerConstruct
    \/ generate_description_Conv2d
    \/ generate_description_Linear
    \/ Conv_to_yaml
    \/ Conv_to_fused_yaml
    \/ MaxPoolLayerConstruct
    \/ generate_description_MaxPool2d
    \/ MaxPool_to_yaml
    \/ MaxPool_to_fused_yaml

SpecConvPool == Init /\ [][NextConvPool]_vars

NextConvTranspose ==
    \/ generate_description_ConvTranspose2d
    \/ Conv_to_yaml
    \/ Conv_to_fused_yaml

SpecConvTranspose == Init /\ [][NextConvTranspose]_vars

NextAdaptive ==
    \/ generate_description_AdaptiveAvgPool2d
    \/ MaxPool_to_yaml
    \/ MaxPool_to_fused_yaml

SpecAdaptive == Init /\ [][NextAdaptive]_vars

\* every operator kind
Next ==
    \/ NextMatmul
    \/ NextView
    \/ NextElem
    \/ NextConvPool

Spec == Init /\ [][Next]_vars

(***************************************************************************)
(* Claims about matrix multiply.                                           *)
(***************************************************************************)
\* the operand pairs generate_matmul_func is specified to accept:
\* both of rank 2, or both of one rank > 2 with the same leading dimensions
MatmulSupported(input1, input2) ==
    \/ Len(input1) = 2 /\ Len(input2) = 2
    \/ /\ Len(input1) > 2
       /\ Len(input2) = Len(input1)
       /\ AllButLastTwo(input1) = AllButLastTwo(input2)

\* C1: for operands of equal rank r >= 2 with the same leading r-2
\* dimensions, generate_matmul_func returns m = input1[r-1], k = input1[r],
\* n = input2[r] and extra_dims = the leading r-2 extents.
C1_MatmulGeometry ==
    (call.op = "generate_matmul_func" /\ MatmulSupported(call.input1, call.input2))
    => LET r == Len(call.input1)
       IN /\ desc.kind = "matmul"
          /\ desc.m = call.input1[r - 1]
          /\ desc.k = call.input1[r]
          /\ desc.n = call.input2[r]
          /\ ~desc.extra_dims_is_None
          /\ desc.extra_dims = AllButLastTwo(call.input1)

\* C7: generate_matmul_func raises and returns no description for every
\* operand pair that is neither both rank 2 nor of one rank > 2 with the
\* same leading dimensions.
C7_MatmulRejects ==
    (call.op = "generate_matmul_func" /\ ~MatmulSupported(call.input1, call.input2))
    => (desc.kind = "none" /\ raised = "NotImplementedError")

\* C7 witness: a batch mismatch between two rank-3 operands was rejected
C7_Witness ==
    /\ call.op = "generate_matmul_func"
    /\ Len(call.input1) = 3
    /\ Len(call.input2) = 3
    /\ call.input1[1] # call.input2[1]
    /\ raised = "NotImplementedError"
    /\ desc.kind = "none"

\* C10: the document MatmulFuncDescription.to_yaml returns names each extra
\* dimension ahead of the template's dimensions, projects every data-space
\* on it first, bounds it by extra_dims at the same position, bounds K, M, N
\* by k, m, n and carries the caller's operand names.
C10_MatmulDocument ==
    (desc.kind = "matmul" /\ call.op = "to_yaml" /\ doc.status = "ok")
    => LET e == Len(desc.extra_dims)
           dims == Letters(e)
       IN /\ doc.shape.dimensions = dims \o MatmulTemplate.shape.dimensions
          /\ \A j \in 1..Len(doc.shape.dataspaces) :
                SubSeq(doc.shape.dataspaces[j].projection, 1, e) = ProjOf(dims)
          /\ \A i \in 1..e : doc.instance[dims[i]] = desc.extra_dims[i]
          /\ doc.instance["K"] = desc.k
          /\ doc.instance["M"] = desc.m
          /\ doc.instance["N"] = desc.n
          /\ doc.shape.dataspaces[1].name = desc.ifmap1_name
          /\ doc.shape.dataspaces[2].name = desc.ifmap2_name
          /\ doc.shape.dataspaces[3].name = desc.ofmap_name

(***************************************************************************)
(* Claims about view.                                                      *)
(***************************************************************************)
\* the value of an expression text under ordinary precedence: a sum of
\* terms, each a product/quotient chain read left to right.  The running sum
\* is sN/sD, the term being read is tN/tD, op is the operator before the
\* next operand ("new" at the start of a term).  The result is a fraction.
RECURSIVE EvalTokens(_, _, _, _, _, _, _, _)
EvalTokens(toks, i, env, sN, sD, tN, tD, op) ==
    IF i > Len(toks) THEN <<sN * tD + tN * sD, sD * tD>>
    ELSE LET tok == toks[i]
             v == IF tok.t = "dim" THEN env[tok.s] ELSE tok.n
         IN IF tok.t = "op"
            THEN IF tok.s = "+"
                 THEN EvalTokens(toks, i + 1, env, sN * tD + tN * sD, sD * tD, 0, 1, "new")
                 ELSE EvalTokens(toks, i + 1, env, sN, sD, tN, tD, tok.s)
            ELSE IF op = "new" THEN EvalTokens(toks, i + 1, env, sN, sD, v, 1, "")
            ELSE IF op = "*" THEN EvalTokens(toks, i + 1, env, sN, sD, tN * v, tD, "")
            ELSE EvalTokens(toks, i + 1, env, sN, sD, tN, tD * v, "")

\* floor(<floor>) % <mod> at the output coordinate env
EvalTerm(term, env) ==
    LET q == EvalTokens(term.floor, 1, env, 0, 1, 0, 1, "new")
    IN (q[1] \div q[2]) % term.mod

\* the number of elements of a shape
RECURSIVE ElementCount(_)
ElementCount(shape) ==
    IF Len(shape) = 0 THEN 1 ELSE shape[1] * ElementCount(Tail(shape))

\* the output coordinates within the bounds of shape, as dimension name -> index
Coordinates(shape) ==
    {c \in [{Letters(Len(shape))[i] : i \in 1..Len(shape)} -> 0..(MaxViewDim + 1)] :
        \A i \in 1..Len(shape) : c[Letters(Len(shape))[i]] < shape[i]}

\* the row-major linear index of coordinate c in shape, last axis fastest
RECURSIVE LinearIndex(_, _, _)
LinearIndex(c, shape, i) ==
    IF i = 0 THEN 0
    ELSE LinearIndex(c, shape, i - 1) * shape[i] + c[Letters(Len(shape))[i]]

\* the product of the extents to the right of axis i
AxisStride(shape, i) == ElementCount(SubSeq(shape, i + 1, Len(shape)))

\* C2: for a view with equal element counts (both shapes of rank >= 1),
\* to_fused_yaml emits one expression per input axis, and at every output
\* coordinate the expression of input axis i is floor(L / stride_i) mod size_i,
\* L the row-major linear index of the output coordinate.
C2_ViewProjection ==
    (/\ desc.kind = "view"
     /\ call.op = "to_fused_yaml"
     /\ Len(desc.ifmap_shape) >= 1
     /\ Len(desc.ofmap_shape) >= 1
     /\ ElementCount(desc.ifmap_shape) = ElementCount(desc.ofmap_shape))
    => /\ doc.status = "ok"
       /\ Len(doc.shape.dataspaces[1].projection) = Len(desc.ifmap_shape)
       /\ \A c \in Coordinates(desc.ofmap_shape) :
             \A i \in 1..Len(desc.ifmap_shape) :
                EvalTerm(doc.shape.dataspaces[1].projection[i], c)
                    = (LinearIndex(c, desc.ofmap_shape, Len(desc.ofmap_shape))
                          \div AxisStride(desc.ifmap_shape, i)) % desc.ifmap_shape[i]

\* C5: ViewFuncDescription.to_yaml always raises and returns no document,
\* and to_fused_yaml raises and returns no document whenever the element
\* counts of ifmap_shape and ofmap_shape differ.
C5_ViewFailures ==
    desc.kind = "view"
    => /\ call.op = "to_yaml" => (doc.status = "none" /\ raised # "")
       /\ (/\ call.op = "to_fused_yaml"
           /\ ElementCount(desc.ifmap_shape) # ElementCount(desc.ofmap_shape))
          => (doc.status = "none" /\ raised # "")

\* C5 witness: a fused translation of mismatched shapes failed its assertion
C5_Witness ==
    /\ desc.kind = "view"
    /\ call.op = "to_fused_yaml"
    /\ Len(desc.ifmap_shape) = 2
    /\ ElementCount(desc.ifmap_shape) # ElementCount(desc.ofmap_shape)
    /\ raised = "AssertionError"
    /\ doc.status = "none"

(***************************************************************************)
(* Claims about elementwise binary.                                        *)
(***************************************************************************)
ElemTranslated ==
    /\ desc.kind = "elementwise"
    /\ call.op \in {"to_yaml", "to_fused_yaml"}

\* after is before, left-padded with extents of 1 up to rank r when shorter
IsLeftPadded(after, before, r) ==
    IF Len(before) >= r THEN after = before
    ELSE /\ Len(after) = r
         /\ \A i \in 1..r :
               after[i] = IF i <= r - Len(before) THEN 1
                          ELSE before[i - (r - Len(before))]

\* C6: either translation left-pads each input shape shorter than the
\* output shape with extents of 1 up to the output rank, returns a document
\* only if the three ranks are then equal, and fails with no document when
\* an input has a higher rank than the output.
C6_ElemPadding ==
    ElemTranslated
    => LET r == Len(call.self.ofmap_shape)
       IN /\ IsLeftPadded(desc.ifmap1_shape, call.self.ifmap1_shape, r)
          /\ IsLeftPadded(desc.ifmap2_shape, call.self.ifmap2_shape, r)
          /\ doc.status = "ok" =>
                /\ Len(desc.ifmap1_shape) = Len(desc.ofmap_shape)
                /\ Len(desc.ifmap2_shape) = Len(desc.ofmap_shape)
          /\ (Len(call.self.ifmap1_shape) > r \/ Len(call.self.ifmap2_shape) > r)
                => (doc.status = "none" /\ raised = "AssertionError")

\* C6 witness: a translation padded a rank-1 first input with a non-unit
\* extent to the output's rank 2 and returned a document
C6_Witness ==
    /\ ElemTranslated
    /\ Len(call.self.ifmap1_shape) = 1
    /\ call.self.ifmap1_shape[1] = 2
    /\ Len(call.self.ofmap_shape) = 2
    /\ desc.ifmap1_shape = <<1, 2>>
    /\ doc.status = "ok"

\* C8: on a description's first translation (rank >= 1), legacy or fused,
\* the document's name is the description's name with "_exhaustive"
\* appended if every instance bound is 1, and the name itself otherwise.
C8_ElemDegenerateName ==
    (ElemTranslated /\ ncalls = 1 /\ doc.status = "ok" /\ Len(desc.ofmap_shape) >= 1)
    => IF \A d \in DOMAIN doc.instance : doc.instance[d] = 1
       THEN doc.shape.name = Append(call.self.name, "_exhaustive")
       ELSE doc.shape.name = call.self.name

\* C9: a translation call leaves every field of the description other than
\* name as it found it.
C9_TranslationFrame ==
    call.op \in {"to_yaml", "to_fused_yaml"}
    => [desc EXCEPT !.name = call.self.name] = call.self

(***************************************************************************)
(* Claims about convolution and pooling.                                   *)
(***************************************************************************)
\* C3: the output extents a convolution or pooling description derives are
\* p = floor((h - r + 2*h_pad) / h_stride) + 1 and
\* q = floor((w - s + 2*w_pad) / w_stride) + 1, floor rounding toward minus
\* infinity.
C3_OutputExtents ==
    (desc.kind \in {"conv", "pool"} /\ doc.status = "ok")
    => /\ doc.instance["P"] = ((desc.h - desc.r + 2 * desc.h_pad) \div desc.h_stride) + 1
       /\ doc.instance["Q"] = ((desc.w - desc.s + 2 * desc.w_pad) \div desc.w_stride) + 1

\* C4: a document returned for a convolution description has Cgroup and C
\* equal to c / g exactly and Mgroup and M equal to m / g exactly, so that
\* G*C = c and G*M = m.
C4_GroupsDivideChannels ==
    (desc.kind = "conv" /\ doc.status = "ok")
    => /\ doc.instance["G"] * doc.instance["C"] = desc.c
       /\ doc.instance["G"] * doc.instance["M"] = desc.m
       /\ doc.shape.coefficients[1].default = doc.instance["C"]
       /\ doc.shape.coefficients[2].default = doc.instance["M"]

(***************************************************************************)
(* Claims about dimension names.                                           *)
(***************************************************************************)
\* the names of the leading e projection axes of a data-space
LeadingAxes(dspace, e) == [i \in 1..e |-> dspace.projection[i][1][1]]

\* C11: in the document of a matmul description with e extra dimensions,
\* the e extra-dimension names are pairwise distinct and none of them is K,
\* M or N, each has its own instance bound beside K, M, N, and the instance
\* bounds K, M, N equal k, m, n.
C11_DistinctDimensionNames ==
    (desc.kind = "matmul" /\ call.op = "to_yaml" /\ doc.status = "ok")
    => LET e == Len(desc.extra_dims)
           names == LeadingAxes(doc.shape.dataspaces[1], e)
       IN /\ \A i, j \in 1..e : i # j => names[i] # names[j]
          /\ \A i \in 1..e : names[i] \notin {"K", "M", "N"}
          /\ Cardinality(DOMAIN doc.instance) = e + 3
          /\ doc.instance["K"] = desc.k
          /\ doc.instance["M"] = desc.m
          /\ doc.instance["N"] = desc.n

(***************************************************************************)
(* Claims about adaptive average pooling.                                  *)
(***************************************************************************)
AdaptiveClassified ==
    /\ call.op = "generate_description"
    /\ call.module = "AdaptiveAvgPool2d"

\* C12: the description built for an adaptive average pooling has, on each
\* spatial axis, stride = floor(in / out), kernel = in - (out - 1) * stride
\* and padding 0.
C12_AdaptiveGeometry ==
    AdaptiveClassified
    => /\ desc.kind = "pool"
       /\ desc.h_stride * call.output[3] <= call.input[3]
       /\ call.input[3] < (desc.h_stride + 1) * call.output[3]
       /\ desc.w_stride * call.output[4] <= call.input[4]
       /\ call.input[4] < (desc.w_stride + 1) * call.output[4]
       /\ desc.r = call.input[3] - (call.output[3] - 1) * desc.h_stride
       /\ desc.s = call.input[4] - (call.output[4] - 1) * desc.w_stride
       /\ desc.h_pad = 0
       /\ desc.w_pad = 0

\* C12 witness: input 7x7 and output 1x1 gave stride 7, kernel 7, pad 0
C12_Witness ==
    /\ AdaptiveClassified
    /\ call.input[3] = 7 /\ call.input[4] = 7
    /\ call.output[3] = 1 /\ call.output[4] = 1
    /\ desc.h_stride = 7 /\ desc.w_stride = 7
    /\ desc.r = 7 /\ desc.s = 7
    /\ desc.h_pad = 0 /\ desc.w_pad = 0

\* C17: when the input extents of an adaptive average pooling are >= its
\* output extents, the translation of the description the classifier built
\* returns a document whose instance bounds P, Q are the observed output
\* height and width.
C17_AdaptiveOutputExtents ==
    [][(/\ AdaptiveClassified
        /\ call.input[3] >= call.output[3]
        /\ call.input[4] >= call.output[4]
        /\ call'.op = "to_yaml")
       => /\ doc'.status = "ok"
          /\ doc'.instance["P"] = call.output[3]
          /\ doc'.instance["Q"] = call.output[4]]_vars

\* C17 witness: a 3x5 input pooled to 2x2 (neither extent divisible) was
\* translated with P = Q = 2
C17_Witness ==
    /\ desc.kind = "pool"
    /\ call.op = "to_yaml"
    /\ ncalls = 1
    /\ desc.h = 3 /\ desc.w = 5
    /\ desc.h_stride = 1 /\ desc.r = 2
    /\ desc.w_stride = 2 /\ desc.s = 3
    /\ doc.status = "ok"
    /\ doc.instance["P"] = 2
    /\ doc.instance["Q"] = 2

(***************************************************************************)
(* Claims about repeated and fused translation.                            *)
(***************************************************************************)
TranslationOps == {"to_yaml", "to_fused_yaml"}

\* C13: when two translation calls in a row on one description both return
\* a document, the second document equals the first, shape name included.
C13_RepeatableTranslation ==
    [][(/\ call.op \in TranslationOps
        /\ call'.op \in TranslationOps
        /\ doc.status = "ok"
        /\ doc'.status = "ok")
       => doc' = doc]_vars

\* the extent of shape at position i of an output of rank r, the shape
\* aligned to the right and extended with 1 on the left
AlignedExtent(shape, r, i) ==
    IF i <= r - Len(shape) THEN 1 ELSE shape[i - (r - Len(shape))]

\* ofmap is the shape broadcasting gives the two inputs
IsBroadcast(ifmap1, ifmap2, ofmap) ==
    LET r == Len(ofmap)
    IN /\ Len(ifmap1) <= r
       /\ Len(ifmap2) <= r
       /\ (Len(ifmap1) = r \/ Len(ifmap2) = r)
       /\ \A i \in 1..r :
             /\ AlignedExtent(ifmap1, r, i) \in {1, ofmap[i]}
             /\ AlignedExtent(ifmap2, r, i) \in {1, ofmap[i]}
             /\ ofmap[i] \in {AlignedExtent(ifmap1, r, i), AlignedExtent(ifmap2, r, i)}

\* C14: in the document of an elementwise description whose output shape
\* is the broadcast of its inputs, every iteration dimension's instance
\* bound is the output shape's extent at that position.
C14_ElemBoundsAreOutputExtents ==
    (/\ ElemTranslated
     /\ doc.status = "ok"
     /\ IsBroadcast(call.self.ifmap1_shape, call.self.ifmap2_shape, call.self.ofmap_shape))
    => \A i \in 1..Len(desc.ofmap_shape) :
          doc.instance[doc.shape.dimensions[i]] = desc.ofmap_shape[i]

\* C15: MaxPoolLayerDescription.to_fused_yaml returns a document whose
\* instance bounds R, S, P, Q, C, N, Wstride, Hstride are r, s, p, q, c, n,
\* w_stride, h_stride, as to_yaml does.
C15_PoolFusedDocument ==
    (desc.kind = "pool" /\ call.op = "to_fused_yaml")
    => /\ doc.status = "ok"
       /\ doc.shape = MaxPoolDoc(desc).shape
       /\ doc.instance["R"] = desc.r
       /\ doc.instance["S"] = desc.s
       /\ doc.instance["P"] = PropP(desc)
       /\ doc.instance["Q"] = PropQ(desc)
       /\ doc.instance["C"] = desc.c
       /\ doc.instance["N"] = desc.n
       /\ doc.instance["Wstride"] = desc.w_stride
       /\ doc.instance["Hstride"] = desc.h_stride

(***************************************************************************)
(* Claims about transposed convolution.                                    *)
(***************************************************************************)
\* C16: the classifier describes a transposed convolution as a
\* ConvLayerDescription whose h, w are (in-1)*stride - 2*pad + (kernel-1) + 1
\* per axis, and the translation of that description returns a document
\* whose instance bounds P, Q are the transposed convolution's input extents.
C16_ConvTransposeRoundTrip ==
    [][(/\ call.op = "generate_description"
        /\ call.module = "ConvTranspose2d"
        /\ call'.op \in TranslationOps)
       => /\ desc.kind = "conv"
          /\ desc.h = (call.input[3] - 1) * call.stride[1] - 2 * call.padding[1]
                         + (call.kernel_size[1] - 1) + 1
          /\ desc.w = (call.input[4] - 1) * call.stride[2] - 2 * call.padding[2]
                         + (call.kernel_size[2] - 1) + 1
          /\ doc'.status = "ok"
          /\ doc'.instance["P"] = call.input[3]
          /\ doc'.instance["Q"] = call.input[4]]_vars

\* C16 witness: a 2x2 input with kernel 2, stride 2, padding 0 on both axes
\* was described with h = w = 4 and translated with P = Q = 2
C16_Witness ==
    /\ desc.kind = "conv"
    /\ call.op \in TranslationOps
    /\ ncalls = 1
    /\ desc.r = 2 /\ desc.s = 2
    /\ desc.h_stride = 2 /\ desc.w_stride = 2
    /\ desc.h_pad = 0 /\ desc.w_pad = 0
    /\ desc.h = 4 /\ desc.w = 4
    /\ doc.status = "ok"
    /\ doc.instance["P"] = 2
    /\ doc.instance["Q"] = 2

====
